---- MODULE Spec2Model ----
(***************************************************************************)
(* Model of umini/data/tree/cartesian/implicit.py: the implicit treap      *)
(* vertex (_TreapVertex: push, update, split, merge, __len__, __bool__)    *)
(* and the ImplicitTreap sequence built on it.                             *)
(*                                                                         *)
(* Python objects live in `heap`, a function from object ids to vertex     *)
(* records.  A reference is an object id or NoneRef (Python's None).  An   *)
(* operation that raises is modelled by its outcome: the heap as the       *)
(* exception left it and the name of the exception.                        *)
(***************************************************************************)
EXTENDS Integers, Sequences, FiniteSets, TLC

\* ------------------------------------------------------------------ bounds
MaxLen == 3          \* present vertices created by the constructor
MaxValue == 2        \* element values are 1..MaxValue
MaxPriority == 1     \* random.randint(0, 1000000), capped: priorities 0..MaxPriority
MaxOps == 2          \* operations applied after construction
MaxFieldOps == 1     \* operations applied after the fields were declared

\* ----------------------------------------------------------- Python values
NoneRef == 0         \* the reference None (self._left = None)
NoneValue == 0       \* the value None (a vertex holding None is falsy)

VARIABLES
    heap,        \* object id -> _TreapVertex record
    last,        \* the last operation: its arguments, and what it returned or raised
    nops,        \* operations applied so far
    tree,        \* ImplicitTreap._tree
    reference,   \* the plain array an ImplicitTreap is compared with
    got,         \* what the last __getitem__ or queryRange returned
    declared     \* fields a caller asked computable to register, validly

vars == <<heap, last, nops, tree, reference, got, declared>>

Ids == DOMAIN heap

\* -------------------------------------------------------------- outcomes
\* A normal return of a pair of references (split) or of one (merge: a).
Ret(h, a, b) == [h |-> h, err |-> "none", a |-> a, b |-> b]

\* An exception: the heap as it was when the exception was raised.
Raise(h, e) == [h |-> h, err |-> e, a |-> NoneRef, b |-> NoneRef]

\* ----------------------------------------------------- _TreapVertex basics
\* Names a caller may pass to computable, push and update.
FieldNames == {"sum", "add"}

\* __init__: priority drawn at random, size 1, both children None, no lazy
\* call, and __func_calls holding the one key 'value' (-> value_func).
NewVertex(value, priority, value_func) ==
    [value |-> value, priority |-> priority, size |-> 1,
     left |-> NoneRef, right |-> NoneRef, value_func |-> value_func,
     lazy_calls |-> {}, func_calls |-> <<"value">>,
     fields |-> [f \in FieldNames |-> NoneValue]]

\* __bool__ of a vertex object.
Bool(h, x) == h[x].size > 0 /\ h[x].value # NoneValue

\* Truth value of a reference: None is falsy, an object answers __bool__.
Truthy(h, ref) == ref # NoneRef /\ Bool(h, ref)

\* __len__ of a vertex object.
VLen(h, x) == IF Bool(h, x) THEN h[x].size ELSE 0

\* x.__getattr__(field) of the Vertex base class: the field's current value,
\* None while it was never set.
GetAttr(h, x, field) == h[x].fields[field]

\* x.__setattr__(field, v).
SetAttr(h, x, field, v) == [h EXCEPT ![x].fields[field] = v]

\* value_func(self): None is not callable; a callable given by the caller is
\* called with the single argument self and its result is dropped.  A
\* function that insists on two arguments raises TypeError just as None does.
CallValueFunc(h, x) == IF h[x].value_func = "None" THEN "TypeError" ELSE "none"

\* e's value bound to the parameter of F: "v = e; F(v)".
With(e, F(_)) == CHOOSE out \in {F(v) : v \in {e}} : TRUE

\* The statements F, run on the heap an outcome left, unless it raised.
Then(res, F(_)) == With(res, LAMBDA o : IF o.err # "none" THEN o ELSE F(o))

\* -------------------------------------------------- computable's wrappers
\* The functions handed to computable are instantiated with integer
\* addition: func(a, b) = reverse_func(a, b) = a + b, TypeError on None.

\* x.__setattr__(field, f(x.__getattr__(field), push_value)) if x is truthy.
ApplyTo(h, x, field, push_value) ==
    IF ~Truthy(h, x) THEN Ret(h, x, NoneRef)
    ELSE IF GetAttr(h, x, field) = NoneValue THEN Raise(h, "TypeError")
    ELSE Ret(SetAttr(h, x, field, GetAttr(h, x, field) + push_value), x, NoneRef)

\* wrapper(self, push_value) of an on_range field: reverse_func on the
\* vertex's own field, func on the same field of each truthy child.
LazyWrapper(h, self, field, push_value) ==
    Then(ApplyTo(h, self, field, push_value), LAMBDA o1 :
    Then(ApplyTo(o1.h, o1.h[self].left, field, push_value), LAMBDA o2 :
    Then(ApplyTo(o2.h, o2.h[self].right, field, push_value), LAMBDA o3 :
    Ret(o3.h, self, NoneRef))))

\* wrapper(self) of an aggregate field: func over the two children's field
\* values; `x or T_co()` calls the TypeVar T_co when x is None or 0.
AggregateWrapper(h, self, field) ==
    IF ~Bool(h, self) THEN Ret(h, self, NoneRef)
    ELSE IF h[self].left = NoneRef THEN Raise(h, "AttributeError")
    ELSE IF GetAttr(h, h[self].left, field) = NoneValue THEN Raise(h, "TypeError")
    ELSE IF h[self].right = NoneRef THEN Raise(h, "AttributeError")
    ELSE IF GetAttr(h, h[self].right, field) = NoneValue THEN Raise(h, "TypeError")
    ELSE Ret(SetAttr(h, self, field, GetAttr(h, h[self].left, field)
                                     + GetAttr(h, h[self].right, field)),
             self, NoneRef)

\* The mutant of IssubclassOfTypeVar: an issubclass test that passes.
IssubclassHolds == "none"

\* issubclass(cls.__annotations__[field], T_co): T_co is a typing.TypeVar,
\* which issubclass() refuses as its second argument.
IssubclassOfTypeVar == "TypeError"

\* _TreapVertex.computable(self, field, reverse_func, on_range)(func):
\* `annotated` says whether field is in cls.__annotations__, reverse_func is
\* "None" or "callable".
computable(h, self, field, reverse_func, on_range, annotated) ==
    IF ~annotated THEN Raise(h, "ValueError")
    ELSE IF IssubclassOfTypeVar = "TypeError" THEN Raise(h, "TypeError")
    ELSE IF on_range
    THEN IF reverse_func = "None" THEN Raise(h, "ValueError")
         ELSE Ret([h EXCEPT ![self].lazy_calls = @ \cup {field}], self, NoneRef)
    ELSE Ret([h EXCEPT ![self].func_calls =
                  IF \E j \in 1..Len(@) : @[j] = field THEN @ ELSE Append(@, field)],
             self, NoneRef)

\* ------------------------------------------------------------------- push
\* for attr, value in kwargs.items(): if self.__lazy_calls.get(attr): call it.
\* kwargs is a sequence of <<attr, value>> pairs, from index i on.
RECURSIVE PushFrom(_, _, _, _)
PushFrom(h, self, kwargs, i) ==
    IF i > Len(kwargs) THEN Ret(h, self, NoneRef)
    ELSE IF kwargs[i][1] \notin h[self].lazy_calls
         THEN PushFrom(h, self, kwargs, i + 1)
    ELSE Then(LazyWrapper(h, self, kwargs[i][1], kwargs[i][2]), LAMBDA w :
             PushFrom(w.h, self, kwargs, i + 1))

\* push(**kwargs) on a vertex object.
push(h, self, kwargs) ==
    IF Bool(h, self) THEN PushFrom(h, self, kwargs, 1) ELSE Ret(h, self, NoneRef)

\* ------------------------------------------------------------------ update
\* self.__func_calls[attr](self): 'value' holds value_func, any other key the
\* aggregate wrapper of that field.
CallFunc(h, self, attr) ==
    IF attr = "value"
    THEN IF CallValueFunc(h, self) = "none" THEN Ret(h, self, NoneRef)
                                             ELSE Raise(h, "TypeError")
    ELSE AggregateWrapper(h, self, attr)

\* self.__func_calls.get(attr, None) is truthy.
HasFunc(h, self, attr) ==
    /\ \E j \in 1..Len(h[self].func_calls) : h[self].func_calls[j] = attr
    /\ (attr = "value" => h[self].value_func # "None")

\* for attr in args: if self.__func_calls.get(attr, None): call it.
RECURSIVE UpdateNamed(_, _, _, _)
UpdateNamed(h, self, args, i) ==
    IF i > Len(args) THEN Ret(h, self, NoneRef)
    ELSE IF ~HasFunc(h, self, args[i]) THEN UpdateNamed(h, self, args, i + 1)
    ELSE Then(CallFunc(h, self, args[i]), LAMBDA c :
             UpdateNamed(c.h, self, args, i + 1))

\* else: for attr in self.__func_calls: call it (no guard).
RECURSIVE UpdateAll(_, _, _)
UpdateAll(h, self, i) ==
    IF i > Len(h[self].func_calls) THEN Ret(h, self, NoneRef)
    ELSE Then(CallFunc(h, self, h[self].func_calls[i]), LAMBDA c :
             UpdateAll(c.h, self, i + 1))

\* self._size = len(self._left) + len(self._right) + 1; len(None) raises.
SetSize(h, self) ==
    IF h[self].left = NoneRef \/ h[self].right = NoneRef
    THEN Raise(h, "TypeError")
    ELSE Ret([h EXCEPT ![self].size =
                  VLen(h, h[self].left) + VLen(h, h[self].right) + 1],
             self, NoneRef)

\* How often update(*args) calls self.__func_calls[attr]: once for each time
\* attr is named in args and its entry is truthy, and once more in the
\* for-else branch if attr is a key of __func_calls.
CallsOf(h, self, args, attr) ==
    Cardinality({i \in 1..Len(args) : args[i] = attr /\ HasFunc(h, self, attr)})
    + Cardinality({j \in 1..Len(h[self].func_calls) : h[self].func_calls[j] = attr})

\* update(*args) on a vertex object.  The for loop has no break, so its
\* else branch runs after it every time.
update(h, self, args) ==
    IF ~Bool(h, self) THEN Ret(h, self, NoneRef)
    ELSE Then(SetSize(h, self), LAMBDA z :
         Then(UpdateNamed(z.h, self, args, 1), LAMBDA n :
         UpdateAll(n.h, self, 1)))

\* ------------------------------------------------------------------- split
\* self.split(key, add, *args, **kwargs) on a vertex object.  The recursive
\* calls pass kwargs on but not args.
RECURSIVE split(_, _, _, _, _, _)
split(h, self, key, add, args, kwargs) ==
    IF ~Bool(h, self) THEN Ret(h, self, self)
    ELSE
    Then(push(h, self, kwargs), LAMBDA p :
    IF p.h[self].left = NoneRef THEN Raise(p.h, "TypeError")        \* len(None)
    ELSE IF VLen(p.h, p.h[self].left) + add <= key                  \* cur_key <= key
    THEN Then(split(p.h, p.h[self].left, key, add, <<>>, kwargs), LAMBDA s :
         Then(update(s.h, self, args), LAMBDA u :
         Ret(u.h, s.a, self)))                                      \* right = self
    ELSE IF p.h[self].right = NoneRef THEN Raise(p.h, "AttributeError")
    ELSE Then(split(p.h, p.h[self].right, key,
                   add + VLen(p.h, p.h[self].left) + 1, <<>>, kwargs), LAMBDA s :
         Then(update(s.h, self, args), LAMBDA u :
         Ret(u.h, self, s.b))))                                     \* left = self

\* ref.split(key, 0, *args, **kwargs) through a reference: None has no
\* attribute split.
SplitRef(h, ref, key, args, kwargs) ==
    IF ref = NoneRef THEN Raise(h, "AttributeError")
    ELSE split(h, ref, key, 0, args, kwargs)

\* ------------------------------------------------------------------- merge
\* ref.push(**kwargs) through a reference: None has no attribute push.
PushRef(h, ref, kwargs) ==
    IF ref = NoneRef THEN Raise(h, "AttributeError") ELSE push(h, ref, kwargs)

\* The mutant of LeftWins: the comparison the wrong way round.
LeftWinsReversed(h, l, r) == h[l].priority < h[r].priority

\* l._priority > r._priority: l becomes the root, r on a tie.
LeftWins(h, l, r) == h[l].priority > h[r].priority

\* The mutant of merge: each root made the other's child.
mergeAliased(h, self, l, r, args, kwargs) ==
    IF l = NoneRef \/ r = NoneRef
    THEN Ret(h, IF l = NoneRef THEN r ELSE l, NoneRef)
    ELSE Ret([h EXCEPT ![l].right = r, ![r].left = l], l, NoneRef)

\* self.merge(l, r, *args, **kwargs); l and r are references.
RECURSIVE merge(_, _, _, _, _, _)
merge(h, self, l, r, args, kwargs) ==
    Then(PushRef(h, l, kwargs), LAMBDA pl :
    Then(PushRef(pl.h, r, kwargs), LAMBDA pr :
    IF ~Bool(pr.h, l) \/ ~Bool(pr.h, r)
    THEN Ret(pr.h, IF Bool(pr.h, l) THEN l ELSE r, NoneRef)         \* l or r
    ELSE IF LeftWins(pr.h, l, r)
    THEN Then(merge(pr.h, self, pr.h[l].right, r, args, kwargs), LAMBDA m :
         Ret([m.h EXCEPT ![l].right = m.a], l, NoneRef))
    ELSE Then(merge(pr.h, self, l, pr.h[r].left, args, kwargs), LAMBDA m :
         Then(update([m.h EXCEPT ![r].left = m.a], self, args), LAMBDA u :
         Ret(u.h, r, NoneRef)))))

\* ------------------------------------------------------------ ImplicitTreap
\* __setitem__(key, value): the body is `...`; nothing is stored.
setitem(h, root, key, value) == Ret(h, root, NoneRef)

\* __delitem__(key): the body is `...`; nothing is removed.
delitem(h, root, key) == Ret(h, root, NoneRef)

\* __getitem__(key): the body is `...`; it returns None (b is the result).
getitem(h, root, key) == Ret(h, root, NoneValue)

\* ImplicitTreap.__len__: len(self._tree); len(None) raises TypeError.
\* b is the length.
seqlen(h, root) ==
    IF root = NoneRef THEN Raise(h, "TypeError") ELSE Ret(h, root, VLen(h, root))

\* ImplicitTreap.__bool__: self._tree is not None.
seqbool(h, root) == root # NoneRef

\* updateRange(lo, hi, field, value): split out [lo, hi), push(field, value)
\* on the isolated root, re-merge.  a is the new root.
updateRange(h, root, lo, hi, field, value) ==
    Then(SplitRef(h, root, hi, <<>>, <<>>), LAMBDA s1 :
    Then(SplitRef(s1.h, s1.a, lo, <<>>, <<>>), LAMBDA s2 :
    Then(PushRef(s2.h, s2.b, << <<field, value>> >>), LAMBDA p :
    Then(merge(p.h, root, s2.a, s2.b, <<>>, <<>>), LAMBDA m1 :
    Then(merge(m1.h, root, m1.a, s1.b, <<>>, <<>>), LAMBDA m2 :
    Ret(m2.h, m2.a, NoneRef))))))

\* queryRange(lo, hi, field): split out [lo, hi), read the isolated root's
\* field, re-merge.  a is the new root, b the value read.
queryRange(h, root, lo, hi, field) ==
    Then(SplitRef(h, root, hi, <<>>, <<>>), LAMBDA s1 :
    Then(SplitRef(s1.h, s1.a, lo, <<>>, <<>>), LAMBDA s2 :
    IF s2.b = NoneRef THEN Raise(s2.h, "AttributeError")
    ELSE
    Then(merge(s2.h, root, s2.a, s2.b, <<>>, <<>>), LAMBDA m1 :
    Then(merge(m1.h, root, m1.a, s1.b, <<>>, <<>>), LAMBDA m2 :
    Ret(m2.h, m2.a, GetAttr(s2.h, s2.b, field))))))

\* ----------------------------------------------------------- observations
\* The truthy vertices under a reference in in-order, each as its object
\* id; a path longer than `fuel` ends in the marker -1 (a cycle).
RECURSIVE InorderIds(_, _, _)
InorderIds(h, ref, fuel) ==
    IF ~Truthy(h, ref) THEN <<>>
    ELSE IF fuel = 0 THEN <<-1>>
    ELSE InorderIds(h, h[ref].left, fuel - 1) \o <<ref>>
         \o InorderIds(h, h[ref].right, fuel - 1)

Nodes(h, ref) == InorderIds(h, ref, Cardinality(DOMAIN h))

NodeSet(h, ref) == LET s == Nodes(h, ref) IN {s[i] : i \in 1..Len(s)}

\* The in-order sequence of values under a reference.
Inorder(h, ref) == LET s == Nodes(h, ref) IN [i \in 1..Len(s) |-> h[s[i]].value]

\* The structure under ref is a tree: no cycle and no vertex reached twice.
TreeShaped(h, ref) ==
    LET s == Nodes(h, ref)
        set == {s[i] : i \in 1..Len(s)}
    IN  -1 \notin set /\ Cardinality(set) = Len(s)

\* A truthy vertex that is no truthy vertex's child.
IsRoot(h, x) ==
    /\ Bool(h, x)
    /\ \A y \in DOMAIN h : Bool(h, y) => h[y].left # x /\ h[y].right # x

\* What a caller may hand to split and merge as a tree: None, a falsy
\* vertex, or the root of a tree it owns.
Handles(h) == {NoneRef} \cup {x \in DOMAIN h : ~Bool(h, x)}
              \cup {x \in DOMAIN h : IsRoot(h, x) /\ TreeShaped(h, x)}

\* size(v) = size(left) + size(right) + 1 at every vertex under ref.
SizesOK(h, ref) ==
    \A v \in NodeSet(h, ref) :
        h[v].size = Len(Nodes(h, h[v].left)) + Len(Nodes(h, h[v].right)) + 1

\* No truthy child has a priority greater than its parent's, under ref.
HeapOK(h, ref) ==
    \A v \in NodeSet(h, ref) :
        /\ Truthy(h, h[v].left) => h[h[v].left].priority <= h[v].priority
        /\ Truthy(h, h[v].right) => h[h[v].right].priority <= h[v].priority

\* ----------------------------------------------------------- construction
\* The treaps over the vertices lo..hi in this in-order: the root is a vertex
\* of greatest priority, the empty slots of a vertex without children hold
\* leafRef (None as __init__ leaves them, or a falsy vertex), every other
\* empty slot the falsy vertex nil, and sizes are as update() computes them.
RECURSIVE Shapes(_, _, _, _, _)
Shapes(lo, hi, prio, leafRef, nil) ==
    IF lo > hi THEN {[root |-> nil, links |-> <<>>]}
    ELSE IF lo = hi
    THEN {[root |-> lo,
           links |-> lo :> [left |-> leafRef, right |-> leafRef, size |-> 1]]}
    ELSE UNION {
        {[root |-> k,
          links |-> (k :> [left |-> L.root, right |-> R.root,
                           size |-> hi - lo + 1]) @@ L.links @@ R.links] :
            L \in Shapes(lo, k - 1, prio, leafRef, nil),
            R \in Shapes(k + 1, hi, prio, leafRef, nil)} :
        k \in {j \in lo..hi : \A i \in lo..hi : prio[i] <= prio[j]}}

ValueFuncs == {"None", "callable"}

\* *args and **kwargs a caller passes to split, merge, update and push.
ArgChoices == {<<"value">>}
KwargChoices == {<< <<"add", 1>> >>}

NoOp == [op |-> "init", err |-> "none", t |-> NoneRef, t2 |-> NoneRef,
         key |-> 0, hi |-> 0, val |-> 0, a |-> NoneRef, b |-> NoneRef,
         pre |-> <<>>, pre2 |-> <<>>, len |-> 0, ok |-> TRUE,
         rt |-> FALSE, orig |-> <<>>, truth |-> FALSE]

\* The value the x-th constructed vertex holds: 1, 2, .., MaxValue, 1, ..
ValueAt(x) == ((x - 1) % MaxValue) + 1

\* After construction: n vertices holding values, wired into two treaps over
\* 1..c and c+1..n, and one falsy vertex (value None) with the id n + 1.
InitHeap ==
    \E n \in 0..MaxLen :
    \E c \in 0..n :
    \E prio \in [1..n -> 0..MaxPriority] :
    \E vf \in ValueFuncs :
    \E leafRef \in {NoneRef, n + 1} :
    \E A \in Shapes(1, c, prio, leafRef, n + 1) :
    \E B \in Shapes(c + 1, n, prio, leafRef, n + 1) :
        heap = [x \in 1..(n + 1) |->
                  IF x = n + 1 THEN NewVertex(NoneValue, 0, vf)
                  ELSE [NewVertex(ValueAt(x), prio[x], vf) EXCEPT
                          !.left = (A.links @@ B.links)[x].left,
                          !.right = (A.links @@ B.links)[x].right,
                          !.size = (A.links @@ B.links)[x].size]]

\* The vertices alone: no ImplicitTreap yet (its default root is None).
Init ==
    /\ InitHeap
    /\ last = NoOp
    /\ nops = 0
    /\ tree = NoneRef
    /\ reference = <<>>
    /\ got = NoneValue
    /\ declared = {}

\* ImplicitTreap(root) over a treap holding every constructed value, or
\* ImplicitTreap() with the default root None; reference is the plain array
\* the sequence is compared with.
InitSeq ==
    /\ InitHeap
    /\ last = NoOp
    /\ nops = 0
    /\ tree \in Handles(heap)
    /\ \A x \in Ids : Bool(heap, x) => x \in NodeSet(heap, tree) \/ tree = NoneRef
    /\ tree # NoneRef => SizesOK(heap, tree)
    /\ reference = Inorder(heap, tree)
    /\ got = NoneValue
    /\ declared = {}

\* ----------------------------------------------------------------- actions
\* What the last operation was given, and what it returned or raised.
Record(op, res, t, t2, key, rt) ==
    [NoOp EXCEPT !.op = op, !.err = res.err, !.t = t, !.t2 = t2, !.key = key,
                 !.a = res.a, !.b = res.b,
                 !.pre = Inorder(heap, t), !.pre2 = Inorder(heap, t2),
                 !.len = IF t = NoneRef THEN 0 ELSE VLen(heap, t),
                 !.ok = SizesOK(heap, t) /\ HeapOK(heap, t)
                        /\ SizesOK(heap, t2) /\ HeapOK(heap, t2),
                 !.rt = rt, !.orig = IF rt THEN last.pre ELSE <<>>]

\* t.split(key, 0, *args, **kwargs); on None the method lookup fails.
Split(t, key, args, kwargs) ==
    /\ nops < MaxOps
    /\ key <= (IF t = NoneRef THEN 0 ELSE VLen(heap, t))
    /\ \E res \in {SplitRef(heap, t, key, args, kwargs)} :
           /\ heap' = res.h
           /\ last' = Record("split", res, t, NoneRef, key, FALSE)
    /\ nops' = nops + 1
    /\ UNCHANGED <<tree, reference, got, declared>>

\* self.merge(l, r, *args, **kwargs) on two trees the caller owns.
Merge(self, l, r, args, kwargs) ==
    /\ nops < MaxOps
    /\ NodeSet(heap, l) \cap NodeSet(heap, r) = {}
    /\ \E res \in {merge(heap, self, l, r, args, kwargs)} :
           /\ heap' = res.h
           /\ last' = Record("merge", res, l, r, 0,
                             last.op = "split" /\ last.err = "none"
                             /\ l = last.a /\ r = last.b)
    /\ nops' = nops + 1
    /\ UNCHANGED <<tree, reference, got, declared>>

\* x.update(*args).
Update(x, args) ==
    /\ nops < MaxOps
    /\ \E res \in {update(heap, x, args)} :
           /\ heap' = res.h
           /\ last' = Record("update", res, x, NoneRef, 0, FALSE)
    /\ nops' = nops + 1
    /\ UNCHANGED <<tree, reference, got, declared>>

\* x.push(**kwargs).
Push(x, kwargs) ==
    /\ nops < MaxOps
    /\ \E res \in {push(heap, x, kwargs)} :
           /\ heap' = res.h
           /\ last' = Record("push", res, x, NoneRef, 0, FALSE)
    /\ nops' = nops + 1
    /\ UNCHANGED <<tree, reference, got, declared>>

Next ==
    \/ \E t \in Handles(heap), key \in 0..MaxLen,
          args \in ArgChoices, kwargs \in KwargChoices :
            Split(t, key, args, kwargs)
    \/ \E l \in Handles(heap), r \in Handles(heap), self \in Ids,
          args \in ArgChoices, kwargs \in KwargChoices :
            Merge(self, l, r, args, kwargs)
    \/ \E x \in Ids, args \in ArgChoices : Update(x, args)
    \/ \E x \in Ids, kwargs \in KwargChoices : Push(x, kwargs)

Spec == Init /\ [][Next]_vars

\* ------------------------------------------------- the sequence's operations
\* seq[key] = value, mirrored on the reference array.
SetItem(key, value) ==
    /\ nops < MaxOps
    /\ key < Len(reference)
    /\ \E res \in {setitem(heap, tree, key, value)} :
           /\ heap' = res.h
           /\ tree' = res.a
           /\ last' = [NoOp EXCEPT !.op = "setitem", !.err = res.err,
                                   !.key = key, !.val = value,
                                   !.pre = reference]
    /\ reference' = [reference EXCEPT ![key + 1] = value]
    /\ nops' = nops + 1
    /\ UNCHANGED <<got, declared>>

\* del seq[key], mirrored on the reference array.
DelItem(key) ==
    /\ nops < MaxOps
    /\ key < Len(reference)
    /\ \E res \in {delitem(heap, tree, key)} :
           /\ heap' = res.h
           /\ tree' = res.a
           /\ last' = [NoOp EXCEPT !.op = "delitem", !.err = res.err,
                                   !.key = key, !.pre = reference]
    /\ reference' = SubSeq(reference, 1, key)
                    \o SubSeq(reference, key + 2, Len(reference))
    /\ nops' = nops + 1
    /\ UNCHANGED <<got, declared>>

\* seq[key]; rt says that it reads the position the last operation set.
GetItem(key) ==
    /\ nops < MaxOps
    /\ key < Len(reference)
    /\ \E res \in {getitem(heap, tree, key)} :
           /\ heap' = res.h
           /\ tree' = res.a
           /\ got' = res.b
           /\ last' = [NoOp EXCEPT !.op = "getitem", !.err = res.err,
                                   !.key = key, !.pre = reference,
                                   !.rt = (last.op = "setitem" /\ last.key = key),
                                   !.val = last.val]
    /\ nops' = nops + 1
    /\ UNCHANGED <<reference, declared>>

NextSeq ==
    \/ \E key \in 0..(MaxLen - 1), value \in 1..MaxValue : SetItem(key, value)
    \/ \E key \in 0..(MaxLen - 1) : DelItem(key)
    \/ \E key \in 0..(MaxLen - 1) : GetItem(key)

SpecSeq == InitSeq /\ [][NextSeq]_vars

\* --------------------------------------- indexes outside the sequence, length
\* seq[key] = value with key >= len: the reference array raises IndexError
\* and stays as it is.
SetItemOutside(key, value) ==
    /\ nops < MaxOps
    /\ key >= Len(Inorder(heap, tree))
    /\ \E res \in {setitem(heap, tree, key, value)} :
           /\ heap' = res.h
           /\ tree' = res.a
           /\ last' = [NoOp EXCEPT !.op = "setitem", !.err = res.err,
                                   !.key = key, !.val = value,
                                   !.pre = Inorder(heap, tree)]
    /\ nops' = nops + 1
    /\ UNCHANGED <<reference, got, declared>>

\* del seq[key] with key >= len.
DelItemOutside(key) ==
    /\ nops < MaxOps
    /\ key >= Len(Inorder(heap, tree))
    /\ \E res \in {delitem(heap, tree, key)} :
           /\ heap' = res.h
           /\ tree' = res.a
           /\ last' = [NoOp EXCEPT !.op = "delitem", !.err = res.err,
                                   !.key = key, !.pre = Inorder(heap, tree)]
    /\ nops' = nops + 1
    /\ UNCHANGED <<reference, got, declared>>

\* seq[key] with key >= len.
GetItemOutside(key) ==
    /\ nops < MaxOps
    /\ key >= Len(Inorder(heap, tree))
    /\ \E res \in {getitem(heap, tree, key)} :
           /\ heap' = res.h
           /\ tree' = res.a
           /\ got' = res.b
           /\ last' = [NoOp EXCEPT !.op = "getitem", !.err = res.err,
                                   !.key = key, !.pre = Inorder(heap, tree)]
    /\ nops' = nops + 1
    /\ UNCHANGED <<reference, declared>>

\* len(seq).
SeqLen ==
    /\ nops < MaxOps
    /\ \E res \in {seqlen(heap, tree)} :
           /\ heap' = res.h
           /\ got' = res.b
           /\ last' = [NoOp EXCEPT !.op = "len", !.err = res.err, !.t = tree,
                                   !.pre = Inorder(heap, tree)]
    /\ nops' = nops + 1
    /\ UNCHANGED <<tree, reference, declared>>

\* bool(seq).
SeqBool ==
    /\ nops < MaxOps
    /\ last' = [NoOp EXCEPT !.op = "bool", !.t = tree,
                            !.truth = seqbool(heap, tree),
                            !.pre = Inorder(heap, tree)]
    /\ nops' = nops + 1
    /\ UNCHANGED <<heap, tree, reference, got, declared>>

NextFacade ==
    \/ \E key \in 0..MaxLen, value \in 1..MaxValue : SetItemOutside(key, value)
    \/ \E key \in 0..MaxLen : DelItemOutside(key)
    \/ \E key \in 0..MaxLen : GetItemOutside(key)
    \/ SeqLen
    \/ SeqBool

SpecFacade == InitSeq /\ [][NextFacade]_vars

\* ------------------------------------------------------ fields and ranges
\* The field is registered at vertex x, as a lazy or as an aggregate field.
Registered(h, x, field) ==
    \/ field \in h[x].lazy_calls
    \/ \E j \in 1..Len(h[x].func_calls) : h[x].func_calls[j] = field

\* What a caller may register: a known (annotated) field name that is not
\* registered yet, with a reverse_func when the field is a range field.
ValidRegistration(h, self, field, reverse_func, on_range, annotated) ==
    /\ annotated
    /\ on_range => reverse_func # "None"
    /\ ~Registered(h, self, field)

\* @_TreapVertex.computable(self, field, reverse_func, on_range) on a
\* function, before the sequence is used.  A call with an annotated field
\* and, for on_range, a reverse_func is a valid declaration.
Computable(self, field, reverse_func, on_range, annotated) ==
    /\ last.op \in {"init", "computable"}
    /\ \E res \in {computable(heap, self, field, reverse_func, on_range, annotated)} :
           /\ heap' = res.h
           /\ last' = [NoOp EXCEPT !.op = "computable", !.err = res.err,
                                   !.ok = ValidRegistration(heap, self, field,
                                              reverse_func, on_range, annotated)]
    /\ declared' = IF annotated /\ (on_range => reverse_func # "None")
                   THEN declared \cup {field} ELSE declared
    /\ UNCHANGED <<nops, tree, reference, got>>

\* seq.updateRange(lo, hi, field, value), mirrored on the reference array.
UpdateRange(lo, hi, field, value) ==
    /\ nops < MaxFieldOps
    /\ lo <= hi /\ hi <= Len(reference)
    /\ \E res \in {updateRange(heap, tree, lo, hi, field, value)} :
           /\ heap' = res.h
           /\ tree' = IF res.err = "none" THEN res.a ELSE tree
           /\ last' = [Record("updateRange", res, tree, NoneRef, lo, FALSE)
                          EXCEPT !.hi = hi, !.val = value]
    /\ reference' = [i \in 1..Len(reference) |->
                        IF lo < i /\ i <= hi THEN reference[i] + value
                                             ELSE reference[i]]
    /\ nops' = nops + 1
    /\ UNCHANGED <<got, declared>>

\* seq.queryRange(lo, hi, field).
QueryRange(lo, hi, field) ==
    /\ nops < MaxFieldOps
    /\ lo <= hi /\ hi <= Len(reference)
    /\ \E res \in {queryRange(heap, tree, lo, hi, field)} :
           /\ heap' = res.h
           /\ tree' = IF res.err = "none" THEN res.a ELSE tree
           /\ got' = res.b
           /\ last' = [Record("queryRange", res, tree, NoneRef, lo, FALSE)
                          EXCEPT !.hi = hi]
    /\ nops' = nops + 1
    /\ UNCHANGED <<reference, declared>>

NextFields ==
    \/ \E self \in Ids, field \in FieldNames, reverse_func \in ValueFuncs,
          on_range \in BOOLEAN, annotated \in BOOLEAN :
            Computable(self, field, reverse_func, on_range, annotated)
    \/ \E x \in Ids, args \in ArgChoices : nops < MaxFieldOps /\ Update(x, args)
    \/ \E lo \in 0..MaxLen, hi \in 0..MaxLen :
            UpdateRange(lo, hi, "add", 1)
    \/ \E lo \in 0..MaxLen, hi \in 0..MaxLen :
            QueryRange(lo, hi, "sum")

SpecFields == InitSeq /\ [][NextFields]_vars

\* Registrations, then pushes of a value for the range field "add".
NextLazy ==
    \/ \E self \in Ids, field \in FieldNames, reverse_func \in ValueFuncs,
          on_range \in BOOLEAN, annotated \in BOOLEAN :
            Computable(self, field, reverse_func, on_range, annotated)
    \/ \E x \in Ids, kwargs \in KwargChoices : nops < MaxFieldOps /\ Push(x, kwargs)

SpecLazy == InitSeq /\ [][NextLazy]_vars

\* ------------------------------------------------------------------ claims
\* The last operation was a split of a treap (a vertex object, sizes and
\* heap order right) at a cut index within its length.
SplitDone == last.op = "split" /\ last.t # NoneRef /\ last.ok

\* The last operation was a merge of two treaps, each a vertex object.
MergeDone == last.op = "merge" /\ last.t # NoneRef /\ last.t2 # NoneRef /\ last.ok

\* The last operation merged the two results of the split before it.
RoundTripDone == last.op = "merge" /\ last.rt

\* C1: for every treap t and every cut index k in 0..length(t), split(t, k)
\* returns two parts and merging them returns a tree with the in-order
\* values t had before the split.
C1_SplitMergeRoundTrip ==
    /\ SplitDone => last.err = "none"
    /\ RoundTripDone => last.err = "none" /\ Inorder(heap, last.a) = last.orig

\* C2: split(t, k) returns as left part the first k elements of t in order
\* and as right part the remaining ones.
C2_SplitPartitions ==
    SplitDone /\ last.err = "none" =>
        /\ Inorder(heap, last.a) = SubSeq(last.pre, 1, last.key)
        /\ Inorder(heap, last.b) = SubSeq(last.pre, last.key + 1, Len(last.pre))

\* C3: split(t, k) returns two parts whose lengths sum to length(t).
C3_SplitLengths ==
    SplitDone =>
        /\ last.err = "none"
        /\ VLen(heap, last.a) + VLen(heap, last.b) = last.len

\* C4: merge(l, r) returns a tree whose in-order sequence is that of l
\* followed by that of r; with l or r absent it returns the other one.
C4_MergeConcatenates ==
    MergeDone =>
        /\ last.err = "none"
        /\ Inorder(heap, last.a) = last.pre \o last.pre2

\* C5: every vertex under a root returned by split or merge has
\* size = size(left) + size(right) + 1.
C5_SizesAfterSplitMerge ==
    (SplitDone \/ MergeDone) /\ last.err = "none" =>
        SizesOK(heap, last.a) /\ SizesOK(heap, last.b)

\* C6: after any sequence of split and merge operations on treaps, no
\* truthy child has a priority greater than its parent's, ties included.
C6_HeapOrderKept ==
    \A v \in Ids : Bool(heap, v) =>
        /\ Truthy(heap, heap[v].left) =>
               heap[heap[v].left].priority <= heap[v].priority
        /\ Truthy(heap, heap[v].right) =>
               heap[heap[v].right].priority <= heap[v].priority

\* A merge of two non-empty treaps whose roots have the same priority
\* returned a tree holding all their vertices.
C6_Witness ==
    /\ MergeDone /\ last.err = "none"
    /\ Len(last.pre) > 0 /\ Len(last.pre2) > 0
    /\ heap[last.t].priority = heap[last.t2].priority
    /\ Len(Nodes(heap, last.a)) = Len(last.pre) + Len(last.pre2)

RECURSIVE SumSeq(_)
SumSeq(q) == IF q = <<>> THEN 0 ELSE Head(q) + SumSeq(Tail(q))

\* C7: once a sum aggregate has been validly declared, an update of a
\* well-formed vertex returns normally and leaves in the vertex's "sum" field
\* the sum of the elements of its subtree.
C7_AggregateIsSubtreeSum ==
    ("sum" \in declared /\ last.op = "update" /\ last.ok /\ Bool(heap, last.t))
        => /\ last.err = "none"
           /\ GetAttr(heap, last.t, "sum") = SumSeq(Inorder(heap, last.t))

\* C8: after every step of a run of set, delete and get operations applied
\* both to the sequence and to the reference array, the sequence's in-order
\* contents equal the reference array.
C8_AgreesWithReference ==
    Inorder(heap, tree) = reference

\* C9: a get(i) that directly follows set(i, v) returns v, and the set left
\* the length and every other position of the sequence as they were.
C9_SetThenGet ==
    (last.op = "getitem" /\ last.rt)
        => /\ last.err = "none"
           /\ got = last.val
           /\ Len(Inorder(heap, tree)) = Len(last.pre)
           /\ \A i \in 1..Len(last.pre) :
                  i # last.key + 1 => Inorder(heap, tree)[i] = last.pre[i]

\* C10: with "sum" and "add" validly declared, updateRange(lo, hi, "add",
\* delta) on a well-formed, non-empty sequence returns normally, every element in
\* [lo, hi) is larger by delta and every element outside is unchanged.
C10_RangeAdd ==
    (last.op = "updateRange" /\ {"sum", "add"} \subseteq declared
        /\ last.t # NoneRef /\ last.ok)
        => /\ last.err = "none"
           /\ Inorder(heap, tree) =
                  [i \in 1..Len(last.pre) |->
                      IF last.key < i /\ i <= last.hi
                      THEN last.pre[i] + last.val ELSE last.pre[i]]

\* C11: a get, set or delete whose index lies outside [0, length) reports
\* an index error and leaves the contents of the sequence as they were.
C11_OutsideIndexReported ==
    (last.op \in {"setitem", "getitem", "delitem"} /\ last.key >= Len(last.pre))
        => /\ last.err = "IndexError"
           /\ Inorder(heap, tree) = last.pre

C13_AbsentPushUpdateSilent ==
    [][/\ (last'.op \in {"push", "update"} /\ ~Bool(heap, last'.t))
              => last'.err = "none" /\ heap' = heap
       /\ (last'.op = "merge" /\ ~Truthy(heap, last'.t))
              => last'.err = "none"]_vars

\* C14: len(seq) raises nothing and returns the number of elements the
\* sequence holds, 0 for a sequence constructed without a root.
C14_LengthCountsElements ==
    last.op = "len" => last.err = "none" /\ got = Len(last.pre)

\* C20: in every state bool(seq) and len(seq) are both defined, and
\* bool(seq) is true exactly when len(seq) > 0.
C20_TruthAgreesWithLength ==
    /\ seqlen(heap, tree).err = "none"
    /\ seqbool(heap, tree) <=> seqlen(heap, tree).b > 0

\* C15: with the range field "add" validly declared, push of a value on the
\* root of a well-formed subtree raises nothing and every element of the
\* subtree, at every depth, is then seen with the value added once.
C15_PushReachesEveryElement ==
    ("add" \in declared /\ last.op = "push" /\ Bool(heap, last.t) /\ last.ok)
        => /\ last.err = "none"
           /\ Inorder(heap, last.t) =
                  [i \in 1..Len(last.pre) |->
                      last.pre[i] + (CHOOSE k \in KwargChoices : TRUE)[1][2]]

\* C17: update(names) on a well-formed present vertex raises nothing and
\* calls the function of a named field exactly once.
C17_UpdateNamedOnce ==
    (last.op = "update" /\ Bool(heap, last.t) /\ last.ok)
        => /\ last.err = "none"
           /\ \A args \in ArgChoices :
                  \A i \in 1..Len(args) :
                      CallsOf(heap, last.t, args, args[i]) = 1

\* C19: a field that was validly declared is registered at every vertex,
\* not only at the vertex the declaration was made through.
C19_RegistrationIsPerType ==
    \A field \in declared : \A x \in Ids : Registered(heap, x, field)

\* C16: split(node, k) on a present node whose left child holds pos
\* elements returns the node as the root of the left part when pos <= k,
\* and as the root of the right part otherwise.
C16_SplitSideOfNode ==
    [][(last'.op = "split" /\ last'.t # NoneRef /\ last'.ok
            /\ last'.err = "none" /\ Bool(heap, last'.t))
          => IF VLen(heap, heap[last'.t].left) <= last'.key
             THEN last'.a = last'.t
             ELSE last'.b = last'.t]_vars

====
